---- MODULE Spec2Model ----
(***************************************************************************)
(* Model of the frequency-list builder get_top_words.py: the POS           *)
(* normaliser, the three source adapters (ngram, lemma-frequency, CSV),    *)
(* the ngram merge, and the ranker/formatter of the __main__ block.        *)
(*                                                                         *)
(* Text is modelled character by character: a Python str is a sequence of  *)
(* one-character strings, so that lower(), strip(), split(), isalpha(),    *)
(* int(), float() and the regular expressions act on what is really in     *)
(* the file.  A Python dict is a sequence of entries in insertion order.   *)
(* A Python float is a fixed-point number counted in tenths, or NaN.       *)
(***************************************************************************)
EXTENDS Integers, Sequences, FiniteSets, TLC

VARIABLES
    args,           \* the parsed command line: [kind, top_n, nfiles]
    files,          \* the input files opened so far: [status, lines read]
    pc,             \* position of the run in __main__
    header_skipped, \* adapter local header_skipped
    file_data,      \* adapter local word_data, the mapping being built
    all_word_data,  \* __main__ all_word_data (ngram merge target)
    word_data,      \* __main__ word_data
    sorted_words,   \* __main__ sorted_words
    output_opened,  \* whether the output target has been opened
    output,         \* the lines written to the output target
    pos_in,         \* normaliser harness: the text handed to normalize_pos
    pos_out,        \* normaliser harness: the returned tag set
    pos_file,       \* the frequency list handed on: lines of cover_POS.txt
    start_line,     \* generate_yaml_entries start_line
    line_i,         \* generate_yaml_entries loop index i
    entries,        \* generate_yaml_entries entries, appended to cover.yaml
    weights,        \* weight harness: what assign_weights returned
    report          \* verify_cover_complete: what main() found

cover_vars == <<pos_file, start_line, line_i, entries, weights, report>>

vars == <<args, files, pc, header_skipped, file_data, all_word_data,
          word_data, sorted_words, output_opened, output, pos_in, pos_out,
          cover_vars>>

\* nothing found yet
NoReport == [duplicates |-> {}, missing_words |-> {}, invalid_sums |-> {}]

\* the weight-assignment and verification scripts have not run
CoverIdle ==
    /\ pos_file = <<>>
    /\ start_line = 1
    /\ line_i = 1
    /\ entries = <<>>
    /\ weights = <<>>
    /\ report = NoReport

-----------------------------------------------------------------------------
(* Bounds of the model. *)

\* longest free text handed to normalize_pos by the normaliser harness
MaxPosLen == 3
\* most data lines read in one run, over all its files (a lemma-frequency
\* file holds one line more: its first line is always taken as a header)
MaxLines == 2
\* most files named after --ngram
MaxFiles == 2
\* largest -n value tried (the smallest is -1: argparse type=int takes it)
MaxTopN == 2
\* most rows of the CSV file handed to the ranker harness
MaxRankLen == 7
\* most lines of the frequency list handed to generate_yaml_entries
MaxCoverLines == 3
\* largest start_line tried
MaxStartLine == 2

\* len(word) <= 6
MaxWordLen == 6

-----------------------------------------------------------------------------
(* Characters and str methods. *)

LowerSeq == <<"a","b","c","d","e","f","g","h","i","j","k","l","m",
              "n","o","p","q","r","s","t","u","v","w","x","y","z">>
UpperSeq == <<"A","B","C","D","E","F","G","H","I","J","K","L","M",
              "N","O","P","Q","R","S","T","U","V","W","X","Y","Z">>
LowerChars == {LowerSeq[i] : i \in 1..26}
UpperChars == {UpperSeq[i] : i \in 1..26}
DigitSeq == <<"0","1","2","3","4","5","6","7","8","9">>
DigitChars == {DigitSeq[i] : i \in 1..10}
SpaceChars == {" ", "\t", "\n", "\r"}
\* letters str.isupper() calls uppercase and str.lower() leaves as they are,
\* because Unicode gives them no lowercase form; each stands for one character
UnmappedUpperChars == {"DOUBLE-STRUCK CAPITAL C"}

\* str.lower() on one character
LowerChar(c) ==
    IF c \in UpperChars
    THEN LowerSeq[CHOOSE i \in 1..26 : UpperSeq[i] = c]
    ELSE c

\* the upper-case form of one ASCII letter
UpperChar(c) ==
    IF c \in LowerChars
    THEN UpperSeq[CHOOSE i \in 1..26 : LowerSeq[i] = c]
    ELSE c

\* the upper-case form of a text
Upper(s) == [i \in 1..Len(s) |-> UpperChar(s[i])]

\* str.lower()
Lower(s) == [i \in 1..Len(s) |-> LowerChar(s[i])]

\* str.isalpha(): non-empty and every character a letter
IsAlpha(s) ==
    /\ Len(s) > 0
    /\ \A i \in 1..Len(s) : s[i] \in LowerChars \cup UpperChars \cup UnmappedUpperChars

\* str.strip(): leading and trailing whitespace removed
Strip(s) ==
    LET idx == {i \in 1..Len(s) : s[i] \notin SpaceChars}
    IN  IF idx = {} THEN <<>>
        ELSE LET lo == CHOOSE i \in idx : \A j \in idx : i <= j
                 hi == CHOOSE i \in idx : \A j \in idx : i >= j
             IN  SubSeq(s, lo, hi)

\* the literal lit occurs in s right after the first k characters
LitAt(s, k, lit) ==
    /\ k + Len(lit) <= Len(s)
    /\ \A i \in 1..Len(lit) : s[k + i] = lit[i]

\* lit in s
Contains(s, lit) == \E k \in 0..Len(s) : LitAt(s, k, lit)

\* str.split(sep) for a one-character separator
RECURSIVE Split(_, _)
Split(s, sep) ==
    LET idx == {i \in 1..Len(s) : s[i] = sep}
    IN  IF idx = {} THEN <<s>>
        ELSE LET k == CHOOSE i \in idx : \A j \in idx : i <= j
             IN  <<SubSeq(s, 1, k - 1)>> \o Split(SubSeq(s, k + 1, Len(s)), sep)

\* str.split(sep, 1): at most one split, at the first separator
SplitOnce(s, sep) ==
    LET idx == {i \in 1..Len(s) : s[i] = sep}
    IN  IF idx = {} THEN <<s>>
        ELSE LET k == CHOOSE i \in idx : \A j \in idx : i <= j
             IN  <<SubSeq(s, 1, k - 1), SubSeq(s, k + 1, Len(s))>>

-----------------------------------------------------------------------------
(* Regular expressions of normalize_pos. *)

\* \w of the re module
IsWordChar(c) ==
    c \in LowerChars \cup UpperChars \cup UnmappedUpperChars \cup DigitChars \cup {"_"}

\* \b after the first k characters of s
Boundary(s, k) ==
    (k >= 1 /\ IsWordChar(s[k])) # (k < Len(s) /\ IsWordChar(s[k + 1]))

\* positions reachable from P by \.?
OptDot(s, P) == P \cup {p + 1 : p \in {q \in P : q < Len(s) /\ s[q + 1] = "."}}

\* positions reachable from P by \s*
Spaces(s, P) ==
    {e \in 0..Len(s) : \E p \in P :
        p <= e /\ \A i \in (p + 1)..e : s[i] \in SpaceChars}

\* positions reachable from P by (t\.?|i\.?)?
OptTI(s, P) ==
    P \cup OptDot(s, {p + 1 : p \in {q \in P : q < Len(s) /\ s[q + 1] \in {"t", "i"}}})

\* re.search(r'\b<lit>\.?\b', s)
SearchAbbrev(s, lit) ==
    \E k \in 0..Len(s) :
        /\ Boundary(s, k)
        /\ LitAt(s, k, lit)
        /\ \E e \in OptDot(s, {k + Len(lit)}) : Boundary(s, e)

\* re.search(r'\bv\.?\s*(t\.?|i\.?)?\b', s)
SearchVerb(s) ==
    \E k \in 0..Len(s) :
        /\ Boundary(s, k)
        /\ LitAt(s, k, <<"v">>)
        /\ \E e \in OptTI(s, Spaces(s, OptDot(s, {k + 1}))) : Boundary(s, e)

W_noun == <<"n","o","u","n">>
W_verb == <<"v","e","r","b">>
W_adjective == <<"a","d","j","e","c","t","i","v","e">>
W_adverb == <<"a","d","v","e","r","b">>
W_preposition == <<"p","r","e","p","o","s","i","t","i","o","n">>
W_conjunction == <<"c","o","n","j","u","n","c","t","i","o","n">>
W_pronoun == <<"p","r","o","n","o","u","n">>
W_def_art == <<"d","e","f","."," ","a","r","t",".">>
W_definite_article == <<"d","e","f","i","n","i","t","e"," ","a","r","t","i","c","l","e">>
W_det == <<"d","e","t",".">>

PosVocabulary == {"N", "V", "Adj", "Adv", "Prep", "Conj", "Pron", "Det"}

NounMarker(p) == SearchAbbrev(p, <<"n">>) \/ Contains(p, W_noun)
\* the verb pattern written with a mandatory period: \bv\.\b
VerbMarkerDotRequired(p) ==
    \/ \E k \in 0..Len(p) :
        Boundary(p, k) /\ LitAt(p, k, <<"v", ".">>) /\ Boundary(p, k + 2)
    \/ Contains(p, W_verb)
VerbMarker(p) == SearchVerb(p) \/ Contains(p, W_verb)
AdjMarker(p) ==
    \/ SearchAbbrev(p, <<"a">>)
    \/ SearchAbbrev(p, <<"a","d","j">>)
    \/ Contains(p, W_adjective)
AdvMarker(p) == SearchAbbrev(p, <<"a","d","v">>) \/ Contains(p, W_adverb)
PrepMarker(p) == SearchAbbrev(p, <<"p","r","e","p">>) \/ Contains(p, W_preposition)
ConjMarker(p) == SearchAbbrev(p, <<"c","o","n","j">>) \/ Contains(p, W_conjunction)
PronMarker(p) == SearchAbbrev(p, <<"p","r","o","n">>) \/ Contains(p, W_pronoun)
\* the determiner test without its 'def. art.' alternative
DetMarkerNoArticle(p) == Contains(p, W_definite_article) \/ Contains(p, W_det)
DetMarker(p) ==
    \/ Contains(p, W_def_art)
    \/ Contains(p, W_definite_article)
    \/ Contains(p, W_det)

\* normalize_pos(pos_str)
normalize_pos(pos_str) ==
    IF Len(pos_str) = 0 THEN {}
    ELSE LET p == Lower(Strip(pos_str))
         IN  (IF NounMarker(p) THEN {"N"} ELSE {})
             \cup (IF VerbMarker(p) THEN {"V"} ELSE {})
             \cup (IF AdjMarker(p) THEN {"Adj"} ELSE {})
             \cup (IF AdvMarker(p) THEN {"Adv"} ELSE {})
             \cup (IF PrepMarker(p) THEN {"Prep"} ELSE {})
             \cup (IF ConjMarker(p) THEN {"Conj"} ELSE {})
             \cup (IF PronMarker(p) THEN {"Pron"} ELSE {})
             \cup (IF DetMarker(p) THEN {"Det"} ELSE {})

-----------------------------------------------------------------------------
(* Numbers.  A frequency is [nan, v]: v counts tenths, so that 7.5 is 75   *)
(* and the integer 100 is 1000; nan is float('nan').  The input lines of   *)
(* the model carry no literal with more than one fractional digit, no      *)
(* exponent and no infinity.                                               *)

Num(n) == [nan |-> FALSE, v |-> n]
NaN == [nan |-> TRUE, v |-> 0]

\* a > b and a < b of Python floats: false as soon as one side is nan
FloatGT(a, b) == ~a.nan /\ ~b.nan /\ a.v > b.v
FloatLT(a, b) == ~a.nan /\ ~b.nan /\ a.v < b.v
\* a >= b
FloatGE(a, b) == ~a.nan /\ ~b.nan /\ a.v >= b.v

DigitVal(c) == (CHOOSE i \in 1..10 : DigitSeq[i] = c) - 1

\* the value of a string of digits (underscores skipped)
RECURSIVE DigitsVal(_)
DigitsVal(s) ==
    IF Len(s) = 0 THEN 0
    ELSE IF s[Len(s)] = "_" THEN DigitsVal(SubSeq(s, 1, Len(s) - 1))
    ELSE 10 * DigitsVal(SubSeq(s, 1, Len(s) - 1)) + DigitVal(s[Len(s)])

\* a digit string as int() and float() take it: digits, single underscores inside
IsDigits(s) ==
    /\ Len(s) > 0
    /\ s[1] \in DigitChars /\ s[Len(s)] \in DigitChars
    /\ \A i \in 1..Len(s) : s[i] \in DigitChars \cup {"_"}
    /\ \A i \in 1..(Len(s) - 1) : ~(s[i] = "_" /\ s[i + 1] = "_")

Unsigned(t) == IF Len(t) > 0 /\ t[1] \in {"+", "-"} THEN SubSeq(t, 2, Len(t)) ELSE t
Sign(t) == IF Len(t) > 0 /\ t[1] = "-" THEN 0 - 1 ELSE 1

\* int(s): [ok, val]; ok = FALSE is ValueError
ParseInt(s) ==
    LET t == Strip(s)
        u == Unsigned(t)
    IN  IF IsDigits(u) THEN [ok |-> TRUE, val |-> Sign(t) * DigitsVal(u)]
        ELSE [ok |-> FALSE, val |-> 0]

\* float(s): [ok, val]; ok = FALSE is ValueError
ParseFloat(s) ==
    LET t == Strip(s)
        u == Unsigned(t)
        p == Split(u, ".")
    IN  IF Lower(u) = <<"n","a","n">> THEN [ok |-> TRUE, val |-> NaN]
        ELSE IF Len(p) = 1 /\ IsDigits(u)
             THEN [ok |-> TRUE, val |-> Num(Sign(t) * 10 * DigitsVal(u))]
        ELSE IF Len(p) = 2 /\ IsDigits(p[1]) /\ Len(p[2]) = 0
             THEN [ok |-> TRUE, val |-> Num(Sign(t) * 10 * DigitsVal(p[1]))]
        ELSE IF Len(p) = 2 /\ IsDigits(p[1]) /\ Len(p[2]) = 1 /\ IsDigits(p[2])
             THEN [ok |-> TRUE,
                   val |-> Num(Sign(t) * (10 * DigitsVal(p[1]) + DigitsVal(p[2])))]
        ELSE IF Len(p) = 2 /\ Len(p[1]) = 0 /\ Len(p[2]) = 1 /\ IsDigits(p[2])
             THEN [ok |-> TRUE, val |-> Num(Sign(t) * DigitsVal(p[2]))]
        ELSE [ok |-> FALSE, val |-> NaN]

-----------------------------------------------------------------------------
(* Line parsers.  A parse result is [ok, word, freq, pos]; ok = FALSE is   *)
(* the (None, ..., set()) result.                                          *)

NoParse == [ok |-> FALSE, word |-> <<>>, freq |-> Num(0), pos |-> {}]

\* parse_ngram_line(line)
parse_ngram_line(line) ==
    LET parts == Split(Strip(line), "\t")
    IN  IF Len(parts) >= 3
        THEN LET w0 == Lower(parts[1])
                 tagged == Contains(w0, <<"_">>)
                 sp == SplitOnce(w0, "_")
                 word == IF tagged THEN sp[1] ELSE w0
                 pos_tags == IF tagged THEN normalize_pos(sp[2]) ELSE {}
                 mc == ParseInt(parts[3])
             IN  IF mc.ok
                 THEN [ok |-> TRUE, word |-> word,
                       freq |-> Num(10 * mc.val), pos |-> pos_tags]
                 ELSE NoParse
        ELSE NoParse

\* the first field of parts[from..] that float() takes: [ok, val]
RECURSIVE FirstFloat(_, _)
FirstFloat(parts, from) ==
    IF from > Len(parts) THEN [ok |-> FALSE, val |-> NaN]
    ELSE LET f == ParseFloat(Strip(parts[from]))
         IN  IF f.ok THEN f ELSE FirstFloat(parts, from + 1)

\* body of the separator loop of parse_wordfrequency_line for one separator:
\* [ret, res]; ret = FALSE is "try the next separator"
TrySeparator(line, sep) ==
    LET parts == Split(Strip(line), sep)
    IN  IF Contains(line, <<sep>>) /\ Len(parts) >= 4 /\ ParseInt(parts[1]).ok
        THEN LET w0 == Lower(Strip(parts[2]))
                 p0 == Strip(parts[3])
                 tagged == Contains(w0, <<"_">>)
                 sp == SplitOnce(w0, "_")
                 word == IF tagged THEN sp[1] ELSE w0
                 pos_str == IF tagged /\ Len(p0) = 0 THEN sp[2] ELSE p0
                 fr == FirstFloat(parts, 4)
             IN  IF Len(word) > 0 /\ fr.ok
                 THEN [ret |-> TRUE,
                       res |-> [ok |-> TRUE, word |-> word, freq |-> fr.val,
                                pos |-> normalize_pos(pos_str)]]
                 ELSE [ret |-> FALSE, res |-> NoParse]
        ELSE [ret |-> FALSE, res |-> NoParse]

\* parse_wordfrequency_line(line)
parse_wordfrequency_line(line) ==
    IF TrySeparator(line, "\t").ret THEN TrySeparator(line, "\t").res
    ELSE IF TrySeparator(line, "|").ret THEN TrySeparator(line, "|").res
    ELSE IF TrySeparator(line, ",").ret THEN TrySeparator(line, ",").res
    ELSE NoParse

\* the parsing part of the loop body of get_top_words_from_csv
parse_csv_line(line) ==
    LET parts == Split(Strip(line), ",")
    IN  IF Len(parts) >= 2
        THEN LET word == Lower(Strip(parts[1]))
                 fr == ParseFloat(Strip(parts[2]))
             IN  IF fr.ok
                 THEN [ok |-> TRUE, word |-> word, freq |-> fr.val, pos |-> {}]
                 ELSE NoParse
        ELSE NoParse

\* the filter of every adapter: word and len(word) <= 6 and word.isalpha()
Keeps(word) == Len(word) > 0 /\ Len(word) <= MaxWordLen /\ IsAlpha(word)

-----------------------------------------------------------------------------
(* Mappings.  A dict word -> {'freq', 'pos'} is the sequence of its        *)
(* entries [word, freq, pos] in insertion order.                           *)

Has(d, w) == \E i \in 1..Len(d) : d[i].word = w
IndexOf(d, w) == CHOOSE i \in 1..Len(d) : d[i].word = w
Get(d, w) == d[IndexOf(d, w)]

\* the update written with = instead of +=
AddIntoOverwrite(d, w, freq, pos) ==
    IF Has(d, w)
    THEN [d EXCEPT ![IndexOf(d, w)] =
            [word |-> w, freq |-> freq, pos |-> @.pos \cup pos]]
    ELSE Append(d, [word |-> w, freq |-> freq, pos |-> pos])
\* word_data[word]['freq'] += freq; word_data[word]['pos'].update(pos_tags)
\* on a defaultdict whose default is {'freq': 0, 'pos': set()}
AddInto(d, w, freq, pos) ==
    IF Has(d, w)
    THEN [d EXCEPT ![IndexOf(d, w)] =
            [word |-> w, freq |-> Num(@.freq.v + freq.v), pos |-> @.pos \cup pos]]
    ELSE Append(d, [word |-> w, freq |-> Num(0 + freq.v), pos |-> pos])

\* the loop body of process_ngram_file
ngram_line(d, line) ==
    LET r == parse_ngram_line(line)
    IN  IF r.ok /\ Keeps(r.word) THEN AddInto(d, r.word, r.freq, r.pos) ELSE d

\* the duplicate branch replacing the whole entry when the frequency wins
KeepMaxReplace(d, w, freq, pos) ==
    IF ~Has(d, w)
    THEN Append(d, [word |-> w, freq |-> freq, pos |-> pos])
    ELSE IF FloatGT(freq, Get(d, w).freq)
    THEN [d EXCEPT ![IndexOf(d, w)] = [word |-> w, freq |-> freq, pos |-> pos]]
    ELSE [d EXCEPT ![IndexOf(d, w)].pos = @ \cup pos]
\* keep the highest frequency of a word, union its POS tags
KeepMax(d, w, freq, pos) ==
    IF ~Has(d, w)
    THEN Append(d, [word |-> w, freq |-> freq, pos |-> pos])
    ELSE [d EXCEPT ![IndexOf(d, w)] =
            [word |-> w,
             freq |-> IF FloatGT(freq, @.freq) THEN freq ELSE @.freq,
             pos |-> @.pos \cup pos]]

\* the loop body of get_top_words_from_wordfrequency after the header test
wordfreq_line(d, line) ==
    LET r == parse_wordfrequency_line(line)
    IN  IF r.ok /\ Keeps(r.word) THEN KeepMax(d, r.word, r.freq, r.pos) ELSE d

\* the header test of get_top_words_from_wordfrequency
wordfreq_is_header(line, line_num) ==
    \/ Contains(Lower(line), <<"r","a","n","k">>)
    \/ Contains(Lower(line), <<"l","e","m","m","a">>)
    \/ line_num < 2

\* the loop body of get_top_words_from_csv after the header test
csv_line(d, line) ==
    LET r == parse_csv_line(line)
    IN  IF r.ok /\ Keeps(r.word) THEN KeepMax(d, r.word, r.freq, {}) ELSE d

\* the header test of get_top_words_from_csv
csv_is_header(line) ==
    \/ Contains(Lower(line), <<"w","o","r","d">>)
    \/ Contains(Lower(line), <<"f","r","e","q">>)

\* get_top_words_from_csv on a file that can be read: the line loop
RECURSIVE csv_loop(_, _, _)
csv_loop(lines, d, skipped) ==
    IF Len(lines) = 0 THEN d
    ELSE IF ~skipped /\ csv_is_header(lines[1])
         THEN csv_loop(Tail(lines), d, TRUE)
         ELSE csv_loop(Tail(lines), csv_line(d, lines[1]), skipped)

get_top_words_from_csv(lines) == csv_loop(lines, <<>>, FALSE)

\* the merge loop of __main__: file_data merged into all_word_data
RECURSIVE merge_file(_, _)
merge_file(all, fd) ==
    IF Len(fd) = 0 THEN all
    ELSE merge_file(AddInto(all, fd[1].word, fd[1].freq, fd[1].pos), Tail(fd))

-----------------------------------------------------------------------------
(* Ranking: sorted(..., key=freq, reverse=True)[:top_n].  list.sort on a   *)
(* list shorter than 64 is one run: count_run, then binarysort; with       *)
(* reverse=True the list is reversed before and after.  Keys are compared  *)
(* with < only.                                                            *)

ISLT(x, y) == FloatLT(x.freq, y.freq)

Reverse(s) == [i \in 1..Len(s) |-> s[Len(s) + 1 - i]]

\* count_run: [n, descending] for a list of at least 2 elements
count_run(s) ==
    LET desc == ISLT(s[2], s[1])
        n == CHOOSE k \in 2..Len(s) :
                /\ \A i \in 3..k : ISLT(s[i], s[i - 1]) = desc
                /\ (k < Len(s) => ISLT(s[k + 1], s[k]) # desc)
    IN  [n |-> n, descending |-> desc]

\* the binary search of binarysort: where pivot goes in s[l .. r-1]
RECURSIVE BinPos(_, _, _, _)
BinPos(s, pivot, l, r) ==
    IF l >= r THEN l
    ELSE LET p == l + ((r - l) \div 2)
         IN  IF ISLT(pivot, s[p]) THEN BinPos(s, pivot, l, p)
             ELSE BinPos(s, pivot, p + 1, r)

\* binarysort: s[1 .. start-1] is sorted, the rest is inserted one by one
RECURSIVE binarysort(_, _)
binarysort(s, start) ==
    IF start > Len(s) THEN s
    ELSE LET k == BinPos(s, s[start], 1, start)
         IN  binarysort(SubSeq(s, 1, k - 1) \o <<s[start]>>
                        \o SubSeq(s, k, start - 1)
                        \o SubSeq(s, start + 1, Len(s)),
                        start + 1)

\* list.sort() ascending
list_sort(s) ==
    IF Len(s) < 2 THEN s
    ELSE LET run == count_run(s)
             s1 == IF run.descending
                   THEN Reverse(SubSeq(s, 1, run.n)) \o SubSeq(s, run.n + 1, Len(s))
                   ELSE s
         IN  binarysort(s1, run.n + 1)

\* sorted(items, key=lambda x: x[1]['freq'], reverse=True)
sorted_by_freq_desc(s) == Reverse(list_sort(Reverse(s)))

\* s[:n]
SliceTo(s, n) ==
    IF n >= 0 THEN SubSeq(s, 1, IF n < Len(s) THEN n ELSE Len(s))
    ELSE SubSeq(s, 1, IF Len(s) + n > 0 THEN Len(s) + n ELSE 0)

\* {w: d for w, d in word_data.items() if len(w) <= 6 and w.isalpha()}
RefilterKeeps(e) == Len(e.word) <= MaxWordLen /\ IsAlpha(e.word)
filtered_of(d) == SelectSeq(d, RefilterKeeps)

\* sorted_words of __main__
rank(d, top_n) == SliceTo(sorted_by_freq_desc(filtered_of(d)), top_n)

-----------------------------------------------------------------------------
(* Formatting. *)

\* the eight tags in the order sorted() gives them
TagOrder == <<"Adj", "Adv", "Conj", "Det", "N", "Prep", "Pron", "V">>

TagChars(t) ==
    CASE t = "Adj" -> <<"A","d","j">>
      [] t = "Adv" -> <<"A","d","v">>
      [] t = "Conj" -> <<"C","o","n","j">>
      [] t = "Det" -> <<"D","e","t">>
      [] t = "N" -> <<"N">>
      [] t = "Prep" -> <<"P","r","e","p">>
      [] t = "Pron" -> <<"P","r","o","n">>
      [] t = "V" -> <<"V">>

\* sorted(data['pos'])
sorted_tags(pos) ==
    LET RECURSIVE Pick(_)
        Pick(i) == IF i > Len(TagOrder) THEN <<>>
                   ELSE (IF TagOrder[i] \in pos THEN <<TagOrder[i]>> ELSE <<>>)
                        \o Pick(i + 1)
    IN  Pick(1)

\* ','.join(pos_tags)
RECURSIVE JoinTags(_)
JoinTags(tags) ==
    IF Len(tags) = 0 THEN <<>>
    ELSE IF Len(tags) = 1 THEN TagChars(tags[1])
    ELSE TagChars(tags[1]) \o <<",">> \o JoinTags(Tail(tags))

\* the line written for one entry, without its line break
format_line(e) ==
    IF e.pos # {} THEN e.word \o <<"|">> \o JoinTags(sorted_tags(e.pos))
    ELSE e.word

-----------------------------------------------------------------------------
(* The input lines the environment may put into a file. *)

\* 'the\t2000\t100\t9\t9\n': a plain row
NG1 ==
    <<"t","h","e","\t","2","0","0","0","\t","1","0","0","\t","9","\t","9",
      "\n">>
\* 'The_NOUN\t2001\t50\t9\t9\n': capitalised, with a POS suffix
NG2 ==
    <<"T","h","e","_","N","O","U","N","\t","2","0","0","1","\t","5","0",
      "\t","9","\t","9","\n">>
\* 'cat_v\t2000\t-5\n': a second word, a negative matchCount
NG3 == <<"c","a","t","_","v","\t","2","0","0","0","\t","-","5","\n">>
\* 'the\t2002\tx\n': matchCount is no integer
NG4 == <<"t","h","e","\t","2","0","0","2","\t","x","\n">>
\* 'letters\t2000\t7\n': the word has 7 letters
NG5 == <<"l","e","t","t","e","r","s","\t","2","0","0","0","\t","7","\n">>
NgramLines == {NG1, NG2, NG3, NG4, NG5}

\* 'rank\tlemma\tPoS\tfreq\n': the header row
WF1 ==
    <<"r","a","n","k","\t","l","e","m","m","a","\t","P","o","S","\t","f",
      "r","e","q","\n">>
\* '1|the|def. art.|22038615\n': pipe-separated, explicit POS text
WF2 ==
    <<"1","|","t","h","e","|","d","e","f","."," ","a","r","t",".","|","2",
      "2","0","3","8","6","1","5","\n">>
\* '2\tthe_n\t\t7.5\n': tab-separated, inline POS suffix, no POS text
WF3 == <<"2","\t","t","h","e","_","n","\t","\t","7",".","5","\n">>
\* '3,be,v.,10.0\n': comma-separated
WF4 == <<"3",",","b","e",",","v",".",",","1","0",".","0","\n">>
\* '4|be|adj.|nan\n': the frequency field reads nan
WF5 == <<"4","|","b","e","|","a","d","j",".","|","n","a","n","\n">>
\* '5|of|prep.|-1\n': a negative frequency
WF6 == <<"5","|","o","f","|","p","r","e","p",".","|","-","1","\n">>
\* 'x|The|n.|5\n': the rank is no integer
WF7 == <<"x","|","T","h","e","|","n",".","|","5","\n">>
\* '6|because|conj.|9\n': the lemma has 7 letters
WF8 ==
    <<"6","|","b","e","c","a","u","s","e","|","c","o","n","j",".","|","9",
      "\n">>
WordfreqLines == {WF1, WF2, WF3, WF4, WF5, WF6, WF7, WF8}

\* 'word,freq\n': the header row
CS1 == <<"w","o","r","d",",","f","r","e","q","\n">>
\* 'cat,500\n': a plain row
CS2 == <<"c","a","t",",","5","0","0","\n">>
\* 'apple,300\n': a plain row
CS3 == <<"a","p","p","l","e",",","3","0","0","\n">>
\* 'Cat,7.5\n': capitalised, a lower frequency
CS4 == <<"C","a","t",",","7",".","5","\n">>
\* 'cat,nan\n': the frequency field reads nan
CS5 == <<"c","a","t",",","n","a","n","\n">>
\* 'dog,-1\n': a negative frequency
CS6 == <<"d","o","g",",","-","1","\n">>
\* 'c4t,9\n': the word is not alphabetic
CS7 == <<"c","4","t",",","9","\n">>
\* 'catalog,9\n': the word has 7 letters
CS8 == <<"c","a","t","a","l","o","g",",","9","\n">>
\* 'sword,3\n': a data row that contains the text 'word'
CS9 == <<"s","w","o","r","d",",","3","\n">>
\* '\u2102,5\n': the word is the letter DOUBLE-STRUCK CAPITAL C
CS10 == <<"DOUBLE-STRUCK CAPITAL C",",","5","\n">>
CsvLines == {CS1, CS2, CS3, CS4, CS5, CS6, CS7, CS8, CS9, CS10}

-----------------------------------------------------------------------------
(* The run of __main__. *)

Kinds == {"ngram", "coca", "wordfreq", "csv", "none"}

\* -n takes any integer (type=int); the model tries -1 .. MaxTopN
TopNs == (0 - 1)..MaxTopN

ArgSets ==
    {a \in [kind : Kinds, top_n : TopNs, nfiles : 0..MaxFiles] :
        /\ (a.kind = "ngram" => a.nfiles >= 1)
        /\ (a.kind = "none" => a.nfiles = 0)
        /\ (a.kind \in {"coca", "wordfreq", "csv"} => a.nfiles = 1)}

RECURSIVE TotalLines(_)
TotalLines(fs) ==
    IF Len(fs) = 0 THEN 0 ELSE Len(fs[1].lines) + TotalLines(Tail(fs))

NewFile(status) == [status |-> status, lines |-> <<>>]
\* the file system after one more line of the current file has been read
ReadLine(fs, line) == [fs EXCEPT ![Len(fs)].lines = Append(@, line)]
\* line_num of enumerate(f) for the line about to be read
LineNum == Len(files[Len(files)].lines)

\* the emptiness test left out
NoWordsNever(d) == FALSE
\* not word_data
NoWords(d) == Len(d) = 0

Init ==
    /\ args \in ArgSets
    /\ files = <<>>
    /\ pc = "main"
    /\ header_skipped = FALSE
    /\ file_data = <<>>
    /\ all_word_data = <<>>
    /\ word_data = <<>>
    /\ sorted_words = <<>>
    /\ output_opened = FALSE
    /\ output = <<>>
    /\ pos_in = <<>>
    /\ pos_out = {}
    /\ CoverIdle

\* else branch: no source flag given
NoSource ==
    /\ pc = "main" /\ args.kind = "none"
    /\ pc' = "exit1"
    /\ UNCHANGED <<args, files, header_skipped, file_data, all_word_data,
                   word_data, sorted_words, output_opened, output, pos_in, pos_out>>
    /\ UNCHANGED cover_vars

\* a missing ngram file taken as fatal
NgramMissingFatal ==
    /\ pc = "main" /\ args.kind = "ngram" /\ Len(files) < args.nfiles
    /\ files' = Append(files, NewFile("missing"))
    /\ pc' = "exit1"
    /\ UNCHANGED <<args, header_skipped, file_data, all_word_data,
                   word_data, sorted_words, output_opened, output, pos_in, pos_out>>
    /\ UNCHANGED cover_vars

\* an ngram file that does not exist is reported and skipped
NgramMissing ==
    /\ pc = "main" /\ args.kind = "ngram" /\ Len(files) < args.nfiles
    /\ files' = Append(files, NewFile("missing"))
    /\ UNCHANGED <<args, pc, header_skipped, file_data, all_word_data,
                   word_data, sorted_words, output_opened, output, pos_in, pos_out>>
    /\ UNCHANGED cover_vars

\* process_ngram_file starts on the next file
NgramOpen ==
    /\ pc = "main" /\ args.kind = "ngram" /\ Len(files) < args.nfiles
    /\ files' = Append(files, NewFile("ok"))
    /\ file_data' = <<>>
    /\ pc' = "ngram_read"
    /\ UNCHANGED <<args, header_skipped, all_word_data, word_data, sorted_words,
                   output_opened, output, pos_in, pos_out>>
    /\ UNCHANGED cover_vars

\* one iteration of the line loop of process_ngram_file
NgramLine ==
    /\ pc = "ngram_read" /\ TotalLines(files) < MaxLines
    /\ \E line \in NgramLines :
        /\ files' = ReadLine(files, line)
        /\ file_data' = ngram_line(file_data, line)
    /\ UNCHANGED <<args, pc, header_skipped, all_word_data, word_data,
                   sorted_words, output_opened, output, pos_in, pos_out>>
    /\ UNCHANGED cover_vars

\* the file exists but opening or reading it raises: process_ngram_file
\* drops what it has read and returns {}, which __main__ merges
NgramReadError ==
    /\ pc = "main" /\ args.kind = "ngram" /\ Len(files) < args.nfiles
    /\ files' = Append(files, NewFile("error"))
    /\ file_data' = <<>>
    /\ all_word_data' = merge_file(all_word_data, <<>>)
    /\ UNCHANGED <<args, pc, header_skipped, word_data, sorted_words,
                   output_opened, output, pos_in, pos_out>>
    /\ UNCHANGED cover_vars

\* end of file: process_ngram_file returns, __main__ merges the file's mapping
NgramEOF ==
    /\ pc = "ngram_read"
    /\ all_word_data' = merge_file(all_word_data, file_data)
    /\ pc' = "main"
    /\ UNCHANGED <<args, files, header_skipped, file_data, word_data,
                   sorted_words, output_opened, output, pos_in, pos_out>>
    /\ UNCHANGED cover_vars

\* after the last ngram file: word_data = all_word_data, exit when empty
NgramDone ==
    /\ pc = "main" /\ args.kind = "ngram" /\ Len(files) = args.nfiles
    /\ word_data' = all_word_data
    /\ pc' = IF NoWords(all_word_data) THEN "exit1" ELSE "check"
    /\ UNCHANGED <<args, files, header_skipped, file_data, all_word_data,
                   sorted_words, output_opened, output, pos_in, pos_out>>
    /\ UNCHANGED cover_vars

\* download_wordfrequency_data returns None
DownloadFail ==
    /\ pc = "main" /\ args.kind = "coca"
    /\ files' = Append(files, NewFile("missing"))
    /\ pc' = "exit1"
    /\ UNCHANGED <<args, header_skipped, file_data, all_word_data, word_data,
                   sorted_words, output_opened, output, pos_in, pos_out>>
    /\ UNCHANGED cover_vars

\* the lemma-frequency file (--wordfreq) does not exist
WordfreqMissing ==
    /\ pc = "main" /\ args.kind = "wordfreq"
    /\ files' = Append(files, NewFile("missing"))
    /\ word_data' = <<>>
    /\ pc' = "check"
    /\ UNCHANGED <<args, header_skipped, file_data, all_word_data,
                   sorted_words, output_opened, output, pos_in, pos_out>>
    /\ UNCHANGED cover_vars

\* get_top_words_from_wordfrequency starts on the file or on the download
WordfreqOpen ==
    /\ pc = "main" /\ args.kind \in {"wordfreq", "coca"}
    /\ files' = Append(files, NewFile("ok"))
    /\ file_data' = <<>>
    /\ header_skipped' = FALSE
    /\ pc' = "wordfreq_read"
    /\ UNCHANGED <<args, all_word_data, word_data, sorted_words,
                   output_opened, output, pos_in, pos_out>>
    /\ UNCHANGED cover_vars

\* one iteration of the line loop of get_top_words_from_wordfrequency
WordfreqLine ==
    /\ pc = "wordfreq_read" /\ LineNum < MaxLines + 1
    /\ \E line \in WordfreqLines :
        /\ files' = ReadLine(files, line)
        /\ IF ~header_skipped /\ wordfreq_is_header(line, LineNum)
           THEN header_skipped' = TRUE /\ file_data' = file_data
           ELSE header_skipped' = header_skipped
                /\ file_data' = wordfreq_line(file_data, line)
    /\ UNCHANGED <<args, pc, all_word_data, word_data, sorted_words,
                   output_opened, output, pos_in, pos_out>>
    /\ UNCHANGED cover_vars

\* opening or reading raises: get_top_words_from_wordfrequency drops what
\* it has read and returns {}
WordfreqReadError ==
    /\ pc = "main" /\ args.kind \in {"wordfreq", "coca"}
    /\ files' = Append(files, NewFile("error"))
    /\ word_data' = <<>>
    /\ pc' = "check"
    /\ UNCHANGED <<args, header_skipped, file_data, all_word_data,
                   sorted_words, output_opened, output, pos_in, pos_out>>
    /\ UNCHANGED cover_vars

\* end of file: the adapter returns its mapping
WordfreqEOF ==
    /\ pc = "wordfreq_read"
    /\ word_data' = file_data
    /\ pc' = "check"
    /\ UNCHANGED <<args, files, header_skipped, file_data, all_word_data,
                   sorted_words, output_opened, output, pos_in, pos_out>>
    /\ UNCHANGED cover_vars

\* the CSV file does not exist
CsvMissing ==
    /\ pc = "main" /\ args.kind = "csv"
    /\ files' = Append(files, NewFile("missing"))
    /\ word_data' = <<>>
    /\ pc' = "check"
    /\ UNCHANGED <<args, header_skipped, file_data, all_word_data,
                   sorted_words, output_opened, output, pos_in, pos_out>>
    /\ UNCHANGED cover_vars

\* get_top_words_from_csv starts on the file
CsvOpen ==
    /\ pc = "main" /\ args.kind = "csv"
    /\ files' = Append(files, NewFile("ok"))
    /\ file_data' = <<>>
    /\ header_skipped' = FALSE
    /\ pc' = "csv_read"
    /\ UNCHANGED <<args, all_word_data, word_data, sorted_words,
                   output_opened, output, pos_in, pos_out>>
    /\ UNCHANGED cover_vars

\* one iteration of the line loop of get_top_words_from_csv
CsvLine ==
    /\ pc = "csv_read" /\ TotalLines(files) < MaxLines
    /\ \E line \in CsvLines :
        /\ files' = ReadLine(files, line)
        /\ IF ~header_skipped /\ csv_is_header(line)
           THEN header_skipped' = TRUE /\ file_data' = file_data
           ELSE header_skipped' = header_skipped
                /\ file_data' = csv_line(file_data, line)
    /\ UNCHANGED <<args, pc, all_word_data, word_data, sorted_words,
                   output_opened, output, pos_in, pos_out>>
    /\ UNCHANGED cover_vars

\* opening or reading raises: get_top_words_from_csv drops what it has
\* read and returns {}
CsvReadError ==
    /\ pc = "main" /\ args.kind = "csv"
    /\ files' = Append(files, NewFile("error"))
    /\ word_data' = <<>>
    /\ pc' = "check"
    /\ UNCHANGED <<args, header_skipped, file_data, all_word_data,
                   sorted_words, output_opened, output, pos_in, pos_out>>
    /\ UNCHANGED cover_vars

\* end of file: the adapter returns its mapping
CsvEOF ==
    /\ pc = "csv_read"
    /\ word_data' = file_data
    /\ pc' = "check"
    /\ UNCHANGED <<args, files, header_skipped, file_data, all_word_data,
                   sorted_words, output_opened, output, pos_in, pos_out>>
    /\ UNCHANGED cover_vars

\* if not word_data: exit
ExitNoWords ==
    /\ pc = "check" /\ NoWords(word_data)
    /\ pc' = "exit1"
    /\ UNCHANGED <<args, files, header_skipped, file_data, all_word_data,
                   word_data, sorted_words, output_opened, output, pos_in, pos_out>>
    /\ UNCHANGED cover_vars

\* filter, sort by frequency descending, keep the first top_n
Rank ==
    /\ pc = "check" /\ ~NoWords(word_data)
    /\ sorted_words' = rank(word_data, args.top_n)
    /\ pc' = "open"
    /\ UNCHANGED <<args, files, header_skipped, file_data, all_word_data,
                   word_data, output_opened, output, pos_in, pos_out>>
    /\ UNCHANGED cover_vars

\* output_file = open(args.output, 'w') if args.output else sys.stdout
OpenOutput ==
    /\ pc = "open"
    /\ output_opened' = TRUE
    /\ pc' = "write"
    /\ UNCHANGED <<args, files, header_skipped, file_data, all_word_data,
                   word_data, sorted_words, output, pos_in, pos_out>>
    /\ UNCHANGED cover_vars

\* one iteration of the output loop
WriteLine ==
    /\ pc = "write" /\ Len(output) < Len(sorted_words)
    /\ output' = Append(output, format_line(sorted_words[Len(output) + 1]))
    /\ UNCHANGED <<args, files, pc, header_skipped, file_data, all_word_data,
                   word_data, sorted_words, output_opened, pos_in, pos_out>>
    /\ UNCHANGED cover_vars

\* the output loop is over: close, report
Close ==
    /\ pc = "write" /\ Len(output) = Len(sorted_words)
    /\ pc' = "done"
    /\ UNCHANGED <<args, files, header_skipped, file_data, all_word_data,
                   word_data, sorted_words, output_opened, output, pos_in, pos_out>>
    /\ UNCHANGED cover_vars

Next ==
    \/ NoSource
    \/ NgramMissing \/ NgramOpen \/ NgramLine \/ NgramReadError \/ NgramEOF
    \/ NgramDone
    \/ DownloadFail
    \/ WordfreqMissing \/ WordfreqOpen \/ WordfreqLine \/ WordfreqReadError
    \/ WordfreqEOF
    \/ CsvMissing \/ CsvOpen \/ CsvLine \/ CsvReadError \/ CsvEOF
    \/ ExitNoWords \/ Rank \/ OpenOutput \/ WriteLine \/ Close

Spec == Init /\ [][Next]_vars

-----------------------------------------------------------------------------
(* The normaliser on its own: normalize_pos called on a free text. *)

PosAlphabet == {"n", "v", "a", "d", "j", "t", ".", ",", " ", "x", "N", "_"}

RECURSIVE TextsUpTo(_)
TextsUpTo(n) ==
    IF n = 0 THEN {<<>>}
    ELSE LET shorter == TextsUpTo(n - 1)
         IN  shorter \cup {Append(t, c) : t \in shorter, c \in PosAlphabet}

T_n_v == <<"n", ".", ",", " ", "v", ".">>
T_adj == <<"a", "d", "j", ".">>
T_xyz == <<"x", "y", "z", ".">>
T_v_t == <<"v", ".", " ", "t", ".">>
T_adj_adv == <<"a", "d", "j", ".", ",", " ", "a", "d", "v", ".">>
T_DET == <<"D", "E", "T">>
T_interj == <<"i", "n", "t", "e", "r", "j", ".">>

\* the abbreviations of the eight tags, without their period
Abbreviations ==
    {<<"n">>, <<"v">>, <<"a","d","j">>, <<"a","d","v">>, <<"p","r","e","p">>,
     <<"c","o","n","j">>, <<"p","r","o","n">>, <<"d","e","t">>}

\* an abbreviation with and without its period, in lower and in upper case
Variants(a) == {a, a \o <<".">>, Upper(a), Upper(a) \o <<".">>}

PosTexts ==
    TextsUpTo(MaxPosLen)
    \cup UNION {Variants(a) : a \in Abbreviations}
    \cup {T_n_v, T_adj, T_xyz, T_v_t, T_adj_adv, T_DET, T_interj, W_def_art, W_det,
          W_noun, W_verb, W_adjective, W_adverb, W_preposition, W_conjunction,
          W_pronoun, W_definite_article}

PosInit ==
    /\ pos_in \in PosTexts
    /\ pos_out = {}
    /\ pc = "pos_call"
    /\ args = [kind |-> "none", top_n |-> 0, nfiles |-> 0]
    /\ files = <<>>
    /\ header_skipped = FALSE
    /\ file_data = <<>>
    /\ all_word_data = <<>>
    /\ word_data = <<>>
    /\ sorted_words = <<>>
    /\ output_opened = FALSE
    /\ output = <<>>
    /\ CoverIdle

\* pos_tags = normalize_pos(pos_str)
NormalizePos ==
    /\ pc = "pos_call"
    /\ pos_out' = normalize_pos(pos_in)
    /\ pc' = "pos_ret"
    /\ UNCHANGED <<args, files, header_skipped, file_data, all_word_data,
                   word_data, sorted_words, output_opened, output, pos_in>>
    /\ UNCHANGED cover_vars

PosNext == NormalizePos

SpecPos == PosInit /\ [][PosNext]_vars

-----------------------------------------------------------------------------
(* The ranker on its own: __main__ from the emptiness test on, after the   *)
(* CSV adapter has read a file of up to MaxRankLen rows, one word a row.   *)

\* the frequency fields of the rows: '3', '5', 'nan'
RankFreqTexts == {<<"3">>, <<"5">>, <<"n", "a", "n">>}

\* the i-th row: the i-th letter of the alphabet, a comma, a frequency
RankRow(i, f) == <<LowerSeq[i], ",">> \o f \o <<"\n">>

RankFiles ==
    UNION {{[i \in 1..n |-> RankRow(i, fs[i])] : fs \in [1..n -> RankFreqTexts]} :
              n \in 0..MaxRankLen}

RankInit ==
    /\ \E lines \in RankFiles :
          /\ files = <<[status |-> "ok", lines |-> lines]>>
          /\ file_data = get_top_words_from_csv(lines)
          /\ word_data = get_top_words_from_csv(lines)
    /\ args \in [kind : {"csv"}, top_n : {MaxTopN, MaxRankLen}, nfiles : {1}]
    /\ pc = "check"
    /\ header_skipped = FALSE
    /\ all_word_data = <<>>
    /\ sorted_words = <<>>
    /\ output_opened = FALSE
    /\ output = <<>>
    /\ pos_in = <<>>
    /\ pos_out = {}
    /\ CoverIdle

RankNext == ExitNoWords \/ Rank \/ OpenOutput \/ WriteLine \/ Close

SpecRank == RankInit /\ [][RankNext]_vars

-----------------------------------------------------------------------------
(* Weight assignment (generate_cover_yaml.py) and verification            *)
(* (verify_cover_complete.py).  A weight is counted in millionths; the     *)
(* quotient 1.0 / num_tags is cut off at the sixth decimal, an error far   *)
(* above that of the floating-point division.  A mapping tag -> weight is  *)
(* the sequence of its items [pos, weight] in insertion order.             *)

\* 1.0
One == 1000000
\* tolerance = 0.0001
tolerance == 100

\* ord() of a letter or a digit
Ord(c) ==
    IF c \in UpperChars THEN 64 + (CHOOSE i \in 1..26 : UpperSeq[i] = c)
    ELSE IF c \in LowerChars THEN 96 + (CHOOSE i \in 1..26 : LowerSeq[i] = c)
    ELSE IF c \in DigitChars THEN 48 + DigitVal(c)
    ELSE 0

\* a < b on two str
RECURSIVE StrLT(_, _)
StrLT(a, b) ==
    IF Len(b) = 0 THEN FALSE
    ELSE IF Len(a) = 0 THEN TRUE
    ELSE IF a[1] = b[1] THEN StrLT(Tail(a), Tail(b))
    ELSE Ord(a[1]) < Ord(b[1])

\* d[pos] = weight in a dict display: a repeated key keeps its place and
\* takes the later value
PutWeight(d, pos, weight) ==
    IF \E i \in 1..Len(d) : d[i].pos = pos
    THEN [i \in 1..Len(d) |->
            IF d[i].pos = pos THEN [pos |-> pos, weight |-> weight] ELSE d[i]]
    ELSE Append(d, [pos |-> pos, weight |-> weight])

\* the literal weights of the branches num_tags = 1 .. 5
fixed_weights(num_tags) ==
    CASE num_tags = 1 -> <<One>>
      [] num_tags = 2 -> <<600000, 400000>>
      [] num_tags = 3 -> <<500000, 300000, 200000>>
      [] num_tags = 4 -> <<400000, 300000, 200000, 100000>>
      [] num_tags = 5 -> <<350000, 250000, 200000, 100000, 100000>>

\* every tag given a tenth, however many tags there are
equal_weight_tenth(num_tags) == One \div 10
\* weight = 1.0 / num_tags
equal_weight(num_tags) == One \div num_tags

\* pos_list = [tag.strip() for tag in pos_tags.split(',')]
pos_list_of(pos_tags) ==
    LET raw == Split(pos_tags, ",")
    IN  [i \in 1..Len(raw) |-> Strip(raw[i])]

assign_weights(pos_tags) ==
    LET pos_list == pos_list_of(pos_tags)
        num_tags == Len(pos_list)
        w(i) == IF num_tags <= 5 THEN fixed_weights(num_tags)[i]
                ELSE equal_weight(num_tags)
        RECURSIVE Build(_, _)
        Build(i, d) ==
            IF i > num_tags THEN d
            ELSE Build(i + 1, PutWeight(d, pos_list[i], w(i)))
    IN  Build(1, <<>>)

\* sum(weights.values())
RECURSIVE WeightSum(_)
WeightSum(ws) == IF Len(ws) = 0 THEN 0 ELSE ws[1].weight + WeightSum(Tail(ws))

\* abs(total - 1.0) > tolerance
InvalidSum(total) ==
    (IF total >= One THEN total - One ELSE One - total) > tolerance

\* sorted(weights.items()): insertion sort on the tag names
RECURSIVE sorted_items(_)
sorted_items(ws) ==
    IF Len(ws) = 0 THEN <<>>
    ELSE LET rest == sorted_items(Tail(ws))
             k == Cardinality({i \in 1..Len(rest) : StrLT(rest[i].pos, ws[1].pos)})
         IN  SubSeq(rest, 1, k) \o <<ws[1]>> \o SubSeq(rest, k + 1, Len(rest))

\* the loop body of generate_yaml_entries: the entries one line adds.  An
\* entry is its first line 'word:' and its weight lines '  pos: weight'.
yaml_entries_of(line) ==
    LET t == Strip(line)
        parts == Split(t, "|")
    IN  IF Len(t) = 0 THEN <<>>
        ELSE IF Len(parts) # 2 THEN <<>>
        ELSE LET word == Strip(parts[1])
                 pos_tags == Strip(parts[2])
             IN  IF Len(word) = 0 \/ Len(pos_tags) = 0 THEN <<>>
                 ELSE <<[key_line |-> word \o <<":">>,
                         weight_lines |-> sorted_items(assign_weights(pos_tags))]>>

\* extract_words_from_pos_file
extract_words_from_pos_file(lines) ==
    {Strip(Split(Strip(lines[i]), "|")[1]) :
        i \in {j \in 1..Len(lines) :
                 /\ Len(Strip(lines[j])) > 0
                 /\ Len(Strip(Split(Strip(lines[j]), "|")[1])) > 0}}

\* the pattern ^(\s*)([a-z:]+):\s*$ matches the line
KeyLineMatches(text) ==
    LET t == Strip(text)
    IN  /\ Len(t) >= 2
        /\ t[Len(t)] = ":"
        /\ \A i \in 1..(Len(t) - 1) : t[i] \in LowerChars \cup {":"}

\* group 2 of the match
KeyOfLine(text) == LET t == Strip(text) IN SubSeq(t, 1, Len(t) - 1)

\* extract_words_from_yaml: the list words; a weight line never matches,
\* it does not end after its colon
RECURSIVE yaml_words(_)
yaml_words(es) ==
    IF Len(es) = 0 THEN <<>>
    ELSE (IF KeyLineMatches(es[1].key_line) THEN <<KeyOfLine(es[1].key_line)>>
          ELSE <<>>) \o yaml_words(Tail(es))

SeqRange(q) == {q[i] : i \in 1..Len(q)}

\* extract_words_from_yaml: duplicates
yaml_duplicates(words) ==
    {words[j] : j \in {k \in 1..Len(words) : \E i \in 1..(k - 1) : words[i] = words[k]}}

\* check_weights_sum_to_one: the words whose weights do not sum to 1.0
invalid_sums_of(es) ==
    {KeyOfLine(es[i].key_line) :
        i \in {j \in 1..Len(es) :
                 /\ KeyLineMatches(es[j].key_line)
                 /\ InvalidSum(WeightSum(es[j].weight_lines))}}

-----------------------------------------------------------------------------
(* assign_weights on its own, called on every tag list the formatter can  *)
(* write.                                                                  *)

TagTexts == {JoinTags(sorted_tags(p)) : p \in (SUBSET PosVocabulary) \ {{}}}

WeightsInit ==
    /\ pos_in \in TagTexts
    /\ weights = <<>>
    /\ pc = "weights_call"
    /\ args = [kind |-> "none", top_n |-> 0, nfiles |-> 0]
    /\ files = <<>>
    /\ header_skipped = FALSE
    /\ file_data = <<>>
    /\ all_word_data = <<>>
    /\ word_data = <<>>
    /\ sorted_words = <<>>
    /\ output_opened = FALSE
    /\ output = <<>>
    /\ pos_out = {}
    /\ pos_file = <<>>
    /\ start_line = 1
    /\ line_i = 1
    /\ entries = <<>>
    /\ report = NoReport

\* weights = assign_weights(pos_tags)
AssignWeights ==
    /\ pc = "weights_call"
    /\ weights' = assign_weights(pos_in)
    /\ pc' = "weights_ret"
    /\ UNCHANGED <<args, files, header_skipped, file_data, all_word_data,
                   word_data, sorted_words, output_opened, output, pos_in,
                   pos_out, pos_file, start_line, line_i, entries, report>>

WeightsNext == AssignWeights

SpecWeights == WeightsInit /\ [][WeightsNext]_vars

-----------------------------------------------------------------------------
(* The frequency list handed on: generate_yaml_entries on the lines the    *)
(* formatter wrote, its entries appended to an empty cover.yaml, then      *)
(* main() of verify_cover_complete.py on the list and on cover.yaml.       *)

W_be == <<"b", "e">>
W_of == <<"o", "f">>
CoverWords == {<<"c", "a", "t">>, <<"t", "h", "e">>, W_be, W_of}
CoverTagSets == {{}, {"N"}, {"N", "V"}}

\* the words of sorted_words are the keys of a dict: no word twice
CoverLists ==
    UNION {{[i \in 1..n |-> [word |-> ws[i], freq |-> Num(10), pos |-> ps[i]]] :
               ws \in {f \in [1..n -> CoverWords] :
                          \A i, j \in 1..n : i # j => f[i] # f[j]},
               ps \in [1..n -> CoverTagSets]} :
              n \in 0..MaxCoverLines}

CoverInit ==
    /\ sorted_words \in CoverLists
    /\ output = [i \in 1..Len(sorted_words) |-> format_line(sorted_words[i])]
    /\ pos_file = [i \in 1..Len(sorted_words) |->
                      format_line(sorted_words[i]) \o <<"\n">>]
    /\ start_line \in 1..MaxStartLine
    /\ line_i = start_line
    /\ entries = <<>>
    /\ weights = <<>>
    /\ report = NoReport
    /\ pc = "generate"
    /\ args = [kind |-> "none", top_n |-> 0, nfiles |-> 0]
    /\ files = <<>>
    /\ header_skipped = FALSE
    /\ file_data = <<>>
    /\ all_word_data = <<>>
    /\ word_data = <<>>
    /\ output_opened = TRUE
    /\ pos_in = <<>>
    /\ pos_out = {}

\* one iteration of the loop of generate_yaml_entries
GenerateLine ==
    /\ pc = "generate" /\ line_i <= Len(pos_file)
    /\ entries' = entries \o yaml_entries_of(pos_file[line_i])
    /\ line_i' = line_i + 1
    /\ UNCHANGED <<args, files, pc, header_skipped, file_data, all_word_data,
                   word_data, sorted_words, output_opened, output, pos_in,
                   pos_out, pos_file, start_line, weights, report>>

\* the loop is over: the entries are appended to cover.yaml
AppendEntries ==
    /\ pc = "generate" /\ line_i > Len(pos_file)
    /\ pc' = "verify"
    /\ UNCHANGED <<args, files, header_skipped, file_data, all_word_data,
                   word_data, sorted_words, output_opened, output, pos_in,
                   pos_out, cover_vars>>

\* main() of verify_cover_complete.py: it stops at the first check that
\* fails - duplicates, then missing words, then weight sums
VerifyCover ==
    /\ pc = "verify"
    /\ LET reference_words == extract_words_from_pos_file(pos_file)
           yaml_word_list == yaml_words(entries)
           duplicates == yaml_duplicates(yaml_word_list)
           missing_words ==
               IF duplicates = {} THEN reference_words \ SeqRange(yaml_word_list)
               ELSE {}
           invalid_sums ==
               IF duplicates = {} /\ missing_words = {} THEN invalid_sums_of(entries)
               ELSE {}
       IN  /\ report' = [duplicates |-> duplicates,
                         missing_words |-> missing_words,
                         invalid_sums |-> invalid_sums]
           /\ pc' = IF duplicates = {} /\ missing_words = {} /\ invalid_sums = {}
                    THEN "verify_ok" ELSE "verify_exit1"
    /\ UNCHANGED <<args, files, header_skipped, file_data, all_word_data,
                   word_data, sorted_words, output_opened, output, pos_in,
                   pos_out, pos_file, start_line, line_i, entries, weights>>

CoverNext == GenerateLine \/ AppendEntries \/ VerifyCover

SpecCover == CoverInit /\ [][CoverNext]_vars

-----------------------------------------------------------------------------
(* Properties. *)

W_the == <<"t", "h", "e">>
W_cat == <<"c", "a", "t">>
L_the_Det == <<"t", "h", "e", "|", "D", "e", "t">>

Finished == pc \in {"done", "exit1"}
Ranked == pc \in {"open", "write", "done"}
Reading == pc \in {"ngram_read", "wordfreq_read", "csv_read"}

\* every source named on the command line has been read to its end
SourcesExhausted ==
    /\ ~Reading
    /\ Len(files) = args.nfiles
    /\ args.nfiles >= 1

\* the word of an output line: the text before the first '|'
LineWord(line) == SplitOnce(line, "|")[1]

\* C1: the output target is opened and written only after every source has
\* been read to its end and the aggregate has been found non-empty; a run
\* that exits with an error has not opened the target nor written a line.
C1_OutputAfterValidation ==
    /\ (output_opened \/ Len(output) > 0) =>
          /\ pc \in {"write", "done"}
          /\ SourcesExhausted
          /\ Len(word_data) > 0
    /\ pc = "exit1" => (~output_opened /\ output = <<>>)

C1_Witness ==
    /\ pc = "done" /\ args.kind = "ngram" /\ Len(files) = 2
    /\ files[1].status = "missing" /\ files[2].status = "ok"
    /\ output_opened /\ Len(output) >= 1

IsLowerWord(w) ==
    /\ Len(w) >= 1 /\ Len(w) <= MaxWordLen
    /\ \A i \in 1..Len(w) : w[i] \in LowerChars

\* C2 (as claimed): every key of every adapter mapping and of the aggregate,
\* and the word of every output line, is made of lowercase letters only and
\* is at most 6 characters long.
C2_WordsWellFormed ==
    /\ \A d \in {file_data, all_word_data, word_data, sorted_words} :
          \A i \in 1..Len(d) : IsLowerWord(d[i].word)
    /\ \A i \in 1..Len(output) : IsLowerWord(LineWord(output[i]))

\* C3 (as claimed): when a run that has written lines is over, the number of
\* lines written is at most top-N, whatever integer top-N is.
C3_AtMostTopN == (pc = "done" /\ Len(output) >= 1) => Len(output) <= args.top_n

\* the aggregate frequency of the word of the i-th output line
FreqOfLine(i) == Get(word_data, LineWord(output[i])).freq

\* C4 (as claimed): for any two consecutive output lines the frequency of the
\* earlier word is greater than or equal to that of the later word.
C4_NonIncreasing ==
    \A i \in 1..(Len(output) - 1) : FloatGE(FreqOfLine(i), FreqOfLine(i + 1))

\* the words the ngram lines can contribute
NgramWords ==
    {parse_ngram_line(l).word :
        l \in {m \in NgramLines :
                 parse_ngram_line(m).ok /\ Keeps(parse_ngram_line(m).word)}}

\* what parse_ngram_line returns for each line a file may hold
ParsedNgram == [l \in NgramLines |-> parse_ngram_line(l)]

\* the sum of matchCount over the parsable lines for word w
RECURSIVE LineSum(_, _)
LineSum(lines, w) ==
    IF Len(lines) = 0 THEN 0
    ELSE LET r == ParsedNgram[lines[1]]
         IN  (IF r.ok /\ r.word = w THEN r.freq.v ELSE 0)
             + LineSum(Tail(lines), w)

\* some parsable line is for word w
Mentions(lines, w) ==
    \E i \in 1..Len(lines) :
        ParsedNgram[lines[i]].ok /\ ParsedNgram[lines[i]].word = w

RECURSIVE FilesSum(_, _)
FilesSum(fs, w) ==
    IF Len(fs) = 0 THEN 0 ELSE LineSum(fs[1].lines, w) + FilesSum(Tail(fs), w)

\* mapping d holds exactly the sums of the lines of files fs
HoldsSums(d, fs) ==
    \A w \in NgramWords :
        /\ Has(d, w) <=> \E i \in 1..Len(fs) : Mentions(fs[i].lines, w)
        /\ Has(d, w) => Get(d, w).freq = Num(FilesSum(fs, w))

\* C5: in an ngram run the frequency of a word is the sum of matchCount over
\* every parsable line for that word: within the file being read, over all
\* the files merged so far, and in the final aggregate.
C5_NgramAdditive ==
    args.kind = "ngram" =>
        /\ pc = "ngram_read" =>
              /\ HoldsSums(file_data, <<files[Len(files)]>>)
              /\ HoldsSums(all_word_data, SubSeq(files, 1, Len(files) - 1))
        /\ pc # "ngram_read" => HoldsSums(all_word_data, files)
        /\ pc \in {"check", "open", "write", "done"} => HoldsSums(word_data, files)

C5_Witness ==
    /\ args.kind = "ngram" /\ pc = "done"
    /\ Len(files) = 2 /\ files[1].lines = <<NG1>> /\ files[2].lines = <<NG2>>
    /\ Get(word_data, W_the).freq = Num(1500)

\* the data lines of the file of a single-file run: the lines the header test
\* did not consume
RECURSIVE CsvDataLines(_, _)
CsvDataLines(lines, skipped) ==
    IF Len(lines) = 0 THEN <<>>
    ELSE IF ~skipped /\ csv_is_header(lines[1]) THEN CsvDataLines(Tail(lines), TRUE)
    ELSE <<lines[1]>> \o CsvDataLines(Tail(lines), skipped)

DataLines ==
    IF args.kind = "csv" THEN CsvDataLines(files[1].lines, FALSE)
    ELSE Tail(files[1].lines)

ParseData(line) ==
    IF args.kind = "csv" THEN parse_csv_line(line) ELSE parse_wordfrequency_line(line)

\* the data lines on which word w occurs
OccurrenceLines(w) ==
    {j \in 1..Len(DataLines) :
        ParseData(DataLines[j]).ok /\ ParseData(DataLines[j]).word = w}

\* the parsed occurrences of word w on the data lines
Occurrences(w) == {ParseData(DataLines[i]) : i \in OccurrenceLines(w)}

\* C6 (as claimed): the frequency a lemma-frequency or CSV adapter returns for
\* a word that occurs on several data lines is the maximum of the frequencies
\* of its occurrences (one of them, and greater than or equal to each of
\* them), and its POS set is the union of the occurrences' POS sets.
C6_MaxOfOccurrences ==
    (/\ args.kind \in {"wordfreq", "coca", "csv"}
     /\ pc \in {"check", "open", "write", "done"}
     /\ Len(word_data) > 0) =>
        \A i \in 1..Len(word_data) :
            LET e == word_data[i]
            IN  Cardinality(OccurrenceLines(e.word)) >= 2 =>
                  /\ \E o \in Occurrences(e.word) : o.freq = e.freq
                  /\ \A o \in Occurrences(e.word) : FloatGE(e.freq, o.freq)
                  /\ e.pos = UNION {o.pos : o \in Occurrences(e.word)}

\* C7 (as claimed): every frequency recorded in a mapping is non-negative.
C7_NonNegative ==
    \A d \in {file_data, all_word_data, word_data} :
        \A i \in 1..Len(d) : FloatGE(d[i].freq, Num(0))

\* every word of d is a word of e, with at least the POS tags it has in d
Grows(d, e) ==
    \A i \in 1..Len(d) : Has(e, d[i].word) /\ d[i].pos \subseteq Get(e, d[i].word).pos

\* C8: no step shrinks or replaces the POS set of a word: not a further line
\* of the file being read, not the merge of an ngram file into the aggregate.
C8_PosOnlyGrows ==
    [][/\ Grows(all_word_data, all_word_data')
       /\ (Reading /\ pc' = pc) => Grows(file_data, file_data')
       /\ (pc = "ngram_read" /\ pc' = "main") => Grows(file_data, all_word_data')
       /\ Ranked => word_data' = word_data]_vars

C8_Witness ==
    /\ pc = "wordfreq_read"
    /\ files[1].lines = <<WF1, WF3, WF2>>
    /\ Has(file_data, W_the) /\ Get(file_data, W_the).pos = {"Det", "N"}

\* texts without any letter a marker starts with
NoMarkerChars == {"x", "t", "d", "j", ".", ",", " ", "_"}

\* C9: normalize_pos returns a subset of the eight tags; a text with no marker
\* and the empty text give the empty set, "adj." gives {Adj}, and a text with
\* several markers gives all their tags ("n., v." gives {N, V}).
C9_NormalizePos ==
    pc = "pos_ret" =>
        /\ pos_out \subseteq PosVocabulary
        /\ (\A i \in 1..Len(pos_in) : pos_in[i] \in NoMarkerChars) => pos_out = {}
        /\ pos_in = T_xyz => pos_out = {}
        /\ pos_in = T_interj => pos_out = {}
        /\ pos_in = T_adj => pos_out = {"Adj"}
        /\ pos_in = T_n_v => pos_out = {"N", "V"}
        /\ pos_in = T_v_t => pos_out = {"V"}
        /\ pos_in = T_adj_adv => pos_out = {"Adj", "Adv"}

C9_Witness == pc = "pos_ret" /\ pos_in = T_n_v /\ pos_out = {"N", "V"}

OutputWords == {LineWord(output[i]) : i \in 1..Len(output)}

\* some file that could be read has a parsable line for word w
InReadableFile(w) ==
    \E i \in 1..Len(files) : files[i].status = "ok" /\ Mentions(files[i].lines, w)

\* C11: a source that is missing or cannot be read yields an empty mapping.
\* In a single-source run the run then holds no word, writes nothing and can
\* only exit with an error.  In an ngram run such a file changes nothing: the
\* aggregate holds exactly the words of the files that could be read, the run
\* exits with an error only when that aggregate is empty, and otherwise every
\* word of the aggregate is written (top-N permitting).
C11_SourceUnavailable ==
    /\ (/\ args.kind \in {"wordfreq", "coca", "csv"}
        /\ Len(files) = 1 /\ files[1].status # "ok") =>
          /\ pc \in {"check", "exit1"}
          /\ word_data = <<>> /\ ~output_opened /\ output = <<>>
    /\ (args.kind = "ngram" /\ pc # "ngram_read") =>
          /\ \A w \in NgramWords : InReadableFile(w) <=> Has(all_word_data, w)
          /\ pc = "exit1" => all_word_data = <<>>
          /\ (pc = "done" /\ args.top_n >= Len(all_word_data)) =>
                \A w \in NgramWords : InReadableFile(w) => w \in OutputWords

C11_Witness ==
    /\ args.kind = "ngram" /\ pc = "done" /\ args.top_n = 2
    /\ Len(files) = 2
    /\ files[1].status = "ok" /\ files[1].lines = <<NG3>>
    /\ files[2].status = "missing"
    /\ OutputWords = {W_cat}

\* a == b on two frequencies: never true of nan
FloatEQ(a, b) == ~a.nan /\ ~b.nan /\ a.v = b.v

\* C12 (as claimed): what is written is a function of the file's contents and
\* of top-N, and two written words of equal frequency stand in the order in
\* which they were inserted into the aggregate.
C12_StableTies ==
    Ranked =>
        /\ sorted_words = rank(get_top_words_from_csv(files[1].lines), args.top_n)
        /\ output = [i \in 1..Len(output) |-> format_line(sorted_words[i])]
        /\ \A i, j \in 1..Len(output) :
              (i < j /\ FloatEQ(FreqOfLine(i), FreqOfLine(j))) =>
                  IndexOf(word_data, LineWord(output[i]))
                      < IndexOf(word_data, LineWord(output[j]))

\* the tags a tag list names
ListedTags(text) == SeqRange(Split(text, ","))

T_N_V == <<"N", ",", "V">>

\* C13: for a tag list the formatter can write, assign_weights returns one
\* weight for each listed tag and for no other, each above 0, and the weights
\* sum to 1.0 within the tolerance 0.0001.
C13_WeightsSumToOne ==
    pc = "weights_ret" =>
        /\ Len(weights) = Cardinality(ListedTags(pos_in))
        /\ {weights[i].pos : i \in 1..Len(weights)} = ListedTags(pos_in)
        /\ \A i \in 1..Len(weights) : weights[i].weight > 0
        /\ ~InvalidSum(WeightSum(weights))

C13_Witness ==
    /\ pc = "weights_ret"
    /\ Len(Split(pos_in, ",")) = 8
    /\ Len(weights) = 8 /\ WeightSum(weights) = One

\* the text 'rank' or 'lemma' occurs in the line, in any letter case
NamesRankOrLemma(line) ==
    \/ Contains(Lower(line), <<"r","a","n","k">>)
    \/ Contains(Lower(line), <<"l","e","m","m","a">>)

\* the mapping of a file whose first two lines, and whose later lines with
\* 'rank' or 'lemma' in them, are skipped, every other line being parsed
RECURSIVE TwoHeadersLoop(_, _, _)
TwoHeadersLoop(lines, line_num, d) ==
    IF Len(lines) = 0 THEN d
    ELSE TwoHeadersLoop(Tail(lines), line_num + 1,
                        IF line_num < 2 \/ NamesRankOrLemma(lines[1]) THEN d
                        ELSE wordfreq_line(d, lines[1]))

\* C14 (as claimed): while the lemma-frequency adapter reads, its mapping is
\* that of the lines read so far with the first two lines and every later
\* line naming 'rank' or 'lemma' skipped, and every other line parsed.
C14_TwoHeaderLines ==
    pc = "wordfreq_read" => file_data = TwoHeadersLoop(files[1].lines, 0, <<>>)

\* the mapping of a CSV file whose first line is skipped when it is a header
\* and whose every later line is parsed
FirstLineOnly(lines) ==
    IF Len(lines) >= 1 /\ csv_is_header(lines[1])
    THEN csv_loop(Tail(lines), <<>>, TRUE)
    ELSE csv_loop(lines, <<>>, TRUE)

\* C15 (as claimed): while the CSV adapter reads, its mapping is that of the
\* lines read so far with the first line skipped if and only if it names
\* 'word' or 'freq', and every later line parsed as a data line.
C15_HeaderFirstLineOnly ==
    pc = "csv_read" => file_data = FirstLineOnly(files[1].lines)

\* the tag an abbreviation stands for
TagOf(a) ==
    CASE a = <<"n">> -> "N"
      [] a = <<"v">> -> "V"
      [] a = <<"a","d","j">> -> "Adj"
      [] a = <<"a","d","v">> -> "Adv"
      [] a = <<"p","r","e","p">> -> "Prep"
      [] a = <<"c","o","n","j">> -> "Conj"
      [] a = <<"p","r","o","n">> -> "Pron"
      [] a = <<"d","e","t">> -> "Det"

\* the ngram row 'the_<suffix>\t2000\t5\n'
NgramRowWithSuffix(suffix) ==
    <<"t","h","e","_">> \o suffix \o <<"\t","2","0","0","0","\t","5","\n">>

\* C16 (as claimed): an abbreviation of a tag, with or without its period and
\* in either letter case, normalizes to the tag set of the abbreviation with
\* its period, which holds the tag; so does the same text as the POS suffix of
\* an ngram token.
C16_PunctuationAndCase ==
    pc = "pos_ret" =>
        \A a \in Abbreviations :
            pos_in \in Variants(a) =>
                /\ pos_out = normalize_pos(a \o <<".">>)
                /\ TagOf(a) \in pos_out
                /\ parse_ngram_line(NgramRowWithSuffix(pos_in)).pos = pos_out

\* the word of a line of the frequency list
ListWord(line) == Strip(Split(Strip(line), "|")[1])

\* the lines of the list the generator was given that carry a word
GivenLines ==
    {i \in start_line..Len(pos_file) : Len(ListWord(pos_file[i])) > 0}

\* C17 (as claimed): once generate_yaml_entries has returned, every line of
\* the list at start_line or later that carries a word, with tags or bare,
\* has exactly one entry; and the verification reports none of these words
\* missing.
C17_CoverComplete ==
    /\ pc \in {"verify", "verify_ok", "verify_exit1"} =>
          \A i \in GivenLines :
              Cardinality({k \in 1..Len(entries) :
                  entries[k].key_line = ListWord(pos_file[i]) \o <<":">>}) = 1
    /\ pc \in {"verify_ok", "verify_exit1"} =>
          \A i \in GivenLines : ListWord(pos_file[i]) \notin report.missing_words

====
